---- MODULE Spec2Model ----
(***************************************************************************)
(* CVAT-COCO-TOOLS: the resolution transform (convert_coco_resolution.py), *)
(* the train/val partition (split_cvat_coco.py) and the orphan cleanup     *)
(* (remove_empty_annotation_files.py) as state machines over the COCO      *)
(* dataset and the file system they read and write.                        *)
(*                                                                         *)
(* Numbers: a bbox component is a Python number that becomes a float once  *)
(* it is multiplied by a scale factor.  Floats are modelled as exact       *)
(* rationals <<n, d>> (d > 0, lowest terms); rounding is not modelled.     *)
(***************************************************************************)
EXTENDS Integers, Sequences, FiniteSets, TLC

\* ------------------------------------------------------------------ bounds
MaxImages == 2      \* Image records in a dataset of the resolution transform
MaxAnns == 2        \* Annotation records in a dataset
MaxRuns == 2        \* chained adjust_annotations runs (each reads the last output)

\* A JSON object is a function from the keys it holds to their values, so that
\* "key in data" is  key \in DOMAIN data.
NoFile == [absent |-> TRUE]         \* a path with no file behind it
InvalidJson == [invalid |-> TRUE]   \* a file json.load rejects (JSONDecodeError)
NoRaster == <<>>                    \* no image file under a file name

\* printed lines: the text, and the file name or key it names
Msg(text) == <<text>>
FileMsg(text, file) == <<text, file>>
KeyMsg(text, data_name, key) == <<text, data_name, key>>

\* -------------------------------------------------------------- rationals
RECURSIVE GCD(_, _)
GCD(a, b) == IF b = 0 THEN a ELSE GCD(b, a % b)

Abs(n) == IF n < 0 THEN -n ELSE n

\* n/d in lowest terms, d > 0
Frac(n, d) ==
    LET g == GCD(Abs(n), Abs(d))
        s == IF d < 0 THEN -1 ELSE 1
    IN  <<(s * n) \div g, (s * d) \div g>>

\* float multiplication  a * b
Mul(a, b) == Frac(a[1] * b[1], a[2] * b[2])

\* ---------------------------------------------------------- input domains
Dims == {<<400, 300>>, <<800, 600>>}
Resolutions == {<<800, 600>>, <<512, 512>>}
BBoxes == {<<10, 10, 100, 50>>, <<0, 0, 400, 300>>, <<350, 200, 100, 150>>}

ImageIds == 1 .. MaxImages
FileNames == 1 .. MaxImages          \* file_name of a record: "<n>.<ext>"

\* an Image record of the input: the i-th record names the i-th file, and its
\* stored size is one of Dims
InputImage(i, id, d) == [id |-> id, file_name |-> i, width |-> d[1], height |-> d[2]]

IntBBox(b) == <<Frac(b[1], 1), Frac(b[2], 1), Frac(b[3], 1), Frac(b[4], 1)>>

InputAnnotation(k, image_id, b) == [id |-> k, image_id |-> image_id, bbox |-> IntBBox(b)]

SeqsUpTo(S, n) == UNION {[1 .. m -> S] : m \in 0 .. n}

\* The programs only test ids for equality, so id lists are taken up to a
\* renaming of the ids: the first record has id 1, and each further record
\* repeats the id of an earlier record or takes the next unused id.
IdListsOfLen(m) ==
    {ids \in [1 .. m -> 1 .. m] :
        \A i \in 1 .. m :
            \/ ids[i] = 1
            \/ \E j \in 1 .. (i - 1) : ids[j] = ids[i] \/ ids[j] + 1 = ids[i]}

IdLists(n) == UNION {IdListsOfLen(m) : m \in 0 .. n}

InputImageLists ==
    UNION {{[i \in 1 .. m |-> <<ids[i], ds[i]>>] : ids \in IdListsOfLen(m),
                                                     ds \in [1 .. m -> Dims]} :
           m \in 0 .. MaxImages}

InputAnnotationLists ==
    SeqsUpTo((1 .. (MaxImages + 1)) \X BBoxes, MaxAnns)

InputDataset(imgs, anns) ==
    [licenses |-> "licenses", info |-> "info", categories |-> "categories",
     images |-> [i \in DOMAIN imgs |-> InputImage(i, imgs[i][1], imgs[i][2])],
     annotations |-> [k \in DOMAIN anns |-> InputAnnotation(k, anns[k][1], anns[k][2])]]

\* the JSON object  data  without  key
Without(data, key) == [k \in DOMAIN data \ {key} |-> data[k]]

IsJson(c) == c # NoFile /\ c # InvalidJson
IsDataset(c) == {"images", "annotations"} \subseteq DOMAIN c

\* kinds of file behind a file_name in the input image directory
FileKinds == {"png", "corrupt", "bmp", "absent"}

VARIABLES
    pc,                 \* position of the running script
    caller,             \* who called adjust_annotations: "main" or "direct"
    stdout,             \* messages printed so far
    exc,                \* the uncaught exception that ended the script, or "none"
    fs_log,             \* file-system mutations performed so far
    resolution,         \* args.resolution  <<W, H>>
    input_dir_exists,   \* os.path.exists(args.input_dir)
    output_dir_exists,  \* os.path.exists(args.output_dir)
    in_files,           \* input image directory: file_name -> kind of file
    out_images,         \* <output_dir>/images: file_name -> raster size or NoRaster
    json_files,         \* annotation files: n -> content of "<name>" + n * "_adjusted"
    annotation_file,    \* the annotation_file argument (index into json_files)
    \* split_cvat_coco.py
    split_ratio,        \* args.split_ratio, a rational <<p, q>>
    src_annotation_file,\* content of args.src_annotation_file
    src_image_dir,      \* file names present in args.src_image_dir
    out_dirs_exist,     \* <output_dir>/annotations, images/train, images/val exist
    train_dir,          \* file names in <output_dir>/images/train
    val_dir,            \* file names in <output_dir>/images/val
    train_json,         \* content of <output_dir>/annotations/train.json
    val_json,           \* content of <output_dir>/annotations/val.json
    train_ids,          \* main's train_ids
    val_ids,            \* main's val_ids
    split,              \* what split_dataset returned
    runs,               \* runs of split_cvat_coco.py started on these paths
    \* remove_empty_annotation_files.py
    input_annotation_file,  \* content of args.input_annotation_file
    image_dir,          \* file names present in args.input_image_directory
    trash_dir,          \* file names in <image_dir>/_trash
    new_annotations,    \* content of new_annotations.json
    existing_unannotated_image_files    \* main's list of files to move

rvars == <<caller, resolution, input_dir_exists, output_dir_exists, in_files,
           out_images, json_files, annotation_file>>

pvars == <<split_ratio, src_annotation_file, src_image_dir, out_dirs_exist, train_dir,
           val_dir, train_json, val_json, train_ids, val_ids, split, runs>>

cvars == <<input_annotation_file, image_dir, trash_dir, new_annotations,
           existing_unannotated_image_files>>

vars == <<pc, stdout, exc, fs_log, rvars, pvars, cvars>>

\* ------------------------------------------- convert_coco_resolution.py

\* lines 112-113: scale_x = resolution[0] / width, scale_y = resolution[1] / height
ScaleFactorsInverted(image, res) ==
    <<Frac(image.width, res[1]), Frac(image.height, res[2])>>

ScaleFactors(image, res) ==
    <<Frac(res[1], image.width), Frac(res[2], image.height)>>

\* lines 118-123: bbox[0] *= scale_x; bbox[1] *= scale_y; bbox[2] *= scale_x; bbox[3] *= scale_y
ScaleBBoxWidthByY(bbox, scale_x, scale_y) ==
    <<Mul(bbox[1], scale_x), Mul(bbox[2], scale_y), Mul(bbox[3], scale_y), Mul(bbox[4], scale_y)>>

ScaleBBox(bbox, scale_x, scale_y) ==
    <<Mul(bbox[1], scale_x), Mul(bbox[2], scale_y), Mul(bbox[3], scale_x), Mul(bbox[4], scale_y)>>

\* a scan that rescales every annotation, whatever its image_id
ScaleAnnotationsAll(annotations, image_id, scale_x, scale_y) ==
    [k \in DOMAIN annotations |->
        [annotations[k] EXCEPT !.bbox = ScaleBBox(@, scale_x, scale_y)]]

\* lines 116-123: the scan of all annotations for one image
ScaleAnnotations(annotations, image_id, scale_x, scale_y) ==
    [k \in DOMAIN annotations |->
        IF annotations[k].image_id = image_id
        THEN [annotations[k] EXCEPT !.bbox = ScaleBBox(@, scale_x, scale_y)]
        ELSE annotations[k]]

\* lines 126-127: image['width'] = resolution[0]; image['height'] = resolution[1]
KeepImageSize(image, res) == image

UpdateImageSize(image, res) == [image EXCEPT !.width = res[1], !.height = res[2]]

\* lines 105-127: the loop over coco_data['images'], from record i on
RECURSIVE AdjustLoop(_, _, _)
AdjustLoop(coco_data, i, res) ==
    IF i > Len(coco_data.images) THEN coco_data
    ELSE LET image == coco_data.images[i]
             scale == ScaleFactors(image, res)
         IN  AdjustLoop(
                 [coco_data EXCEPT
                     !.images = [@ EXCEPT ![i] = UpdateImageSize(image, res)],
                     !.annotations = ScaleAnnotations(@, image.id, scale[1], scale[2])],
                 i + 1, res)

\* lines 211-227 of main: the argument checks
Main ==
    /\ pc = "main"
    /\ IF ~input_dir_exists
       THEN /\ stdout' = stdout \cup {Msg("error: Input directory does not exist")}
            /\ pc' = "exit"
            /\ UNCHANGED <<output_dir_exists, fs_log>>
       ELSE /\ output_dir_exists' = TRUE
            /\ fs_log' = IF output_dir_exists THEN fs_log
                         ELSE fs_log \cup {"makedirs output_dir"}
            /\ IF json_files[annotation_file] = NoFile
               THEN /\ stdout' = stdout \cup {Msg("error: Annotation file does not exist")}
                    /\ pc' = "exit"
               ELSE /\ pc' = "resize"
                    /\ UNCHANGED stdout
    /\ UNCHANGED <<exc, caller, resolution, input_dir_exists, in_files, out_images,
                   json_files, annotation_file, pvars, cvars>>

\* a failure that leaves the loop: no file after the first corrupt one is handled
ResizeOutcomeAbort(kinds, file) ==
    IF \E g \in DOMAIN kinds : g < file /\ kinds[g] = "corrupt" THEN "skipped"
    ELSE IF kinds[file] = "png" THEN "written"
    ELSE IF kinds[file] = "corrupt" THEN "failed"
    ELSE "skipped"

\* lines 65-79: what the loop body does with one file of input_dir: a file with
\* another extension (or none of that name) is passed over; cv2.imread gives
\* None for a file it cannot decode and cv2.resize then raises cv2.error, which
\* line 78 catches
ResizeOutcome(kinds, file) ==
    IF kinds[file] = "png" THEN "written"
    ELSE IF kinds[file] = "corrupt" THEN "failed"
    ELSE "skipped"

\* lines 46-79 resize_images, and line 231 of main
ResizeImages ==
    /\ pc = "resize"
    /\ out_images' = [f \in FileNames |->
                        IF ResizeOutcome(in_files, f) = "written" THEN resolution
                        ELSE out_images[f]]
    /\ fs_log' = fs_log \cup {"makedirs images"}
                        \cup {"imwrite" : f \in {g \in FileNames :
                                                    ResizeOutcome(in_files, g) = "written"}}
    /\ stdout' = stdout
                  \cup {FileMsg("error resizing image", f) :
                           f \in {g \in FileNames : ResizeOutcome(in_files, g) = "failed"}}
                  \cup {Msg("Image resizing completed successfully")}
    /\ pc' = "adjust"
    /\ UNCHANGED <<exc, caller, resolution, input_dir_exists, output_dir_exists, in_files,
                   json_files, annotation_file, pvars, cvars>>

\* lines 105-116: the top-level keys the loop reads before anything is written
\* (the records of the input hold their own keys)
RaisesKeyError(content) ==
    \/ "images" \notin DOMAIN content
    \/ Len(content.images) > 0 /\ "annotations" \notin DOMAIN content

\* an output path that keeps the input's file name
OutputPathSameName(path) == path

\* lines 92-93 and 130-131: output_path is output_dir joined with the input's
\* base name without its extension plus '_adjusted.json'.  Annotation files are
\* indexed by the number of '_adjusted' suffixes of their base name, all of them
\* in one directory: the case of output_dir being the directory of the input.
OutputPath(path) == path + 1

\* lines 82-139 adjust_annotations, and line 237 of main
AdjustAnnotations ==
    /\ pc = "adjust"
    /\ LET content == json_files[annotation_file]
           output_path == OutputPath(annotation_file)
           completed == IF caller = "main"
                        THEN {Msg("Annotation adjustment completed successfully")}
                        ELSE {}
       IN  IF ~IsJson(content)
           THEN \* IOError or json.JSONDecodeError, caught at line 136
                /\ stdout' = stdout \cup {Msg("error adjusting annotations")} \cup completed
                /\ fs_log' = fs_log \cup {"makedirs annotations"}
                /\ pc' = IF caller = "main" THEN "draw" ELSE "returned"
                /\ UNCHANGED <<exc, json_files>>
           ELSE IF RaisesKeyError(content)
           THEN \* KeyError is not caught: it ends the script
                /\ exc' = "KeyError"
                /\ pc' = "crashed"
                /\ fs_log' = fs_log \cup {"makedirs annotations"}
                /\ UNCHANGED <<stdout, json_files>>
           ELSE /\ json_files' = [json_files EXCEPT ![output_path] =
                                     AdjustLoop(content, 1, resolution)]
                /\ fs_log' = fs_log \cup {"makedirs annotations", "write adjusted"}
                /\ stdout' = stdout \cup completed
                /\ pc' = IF caller = "main" THEN "draw" ELSE "returned"
                /\ exc' = exc
    /\ UNCHANGED <<caller, resolution, input_dir_exists, output_dir_exists, in_files,
                   out_images, annotation_file, pvars, cvars>>

\* lines 142-194 draw_bounding_boxes, called at line 240 on the adjusted file
DrawBoundingBoxes ==
    /\ pc = "draw"
    /\ LET content == json_files[OutputPath(annotation_file)]
       IN  IF ~IsJson(content)
           THEN /\ stdout' = stdout \cup {Msg("error loading COCO annotations")}
                /\ pc' = "done"
                /\ exc' = exc
           ELSE IF Len(content.images) = 0
           THEN /\ exc' = "IndexError"
                /\ pc' = "crashed"
                /\ stdout' = stdout
           ELSE /\ stdout' = IF out_images[content.images[1].file_name] = NoRaster
                             THEN stdout \cup {Msg("error displaying image with bounding boxes")}
                             ELSE stdout
                /\ pc' = "done"
                /\ exc' = exc
    /\ UNCHANGED <<fs_log, rvars, pvars, cvars>>

\* a further call of adjust_annotations on the file the last call wrote
CallAdjustAgain ==
    /\ pc \in {"done", "returned"}
    /\ OutputPath(annotation_file) < MaxRuns
    /\ IsJson(json_files[OutputPath(annotation_file)])
    /\ annotation_file'= OutputPath(annotation_file)
    /\ caller' = "direct"
    /\ pc' = "adjust"
    /\ UNCHANGED <<stdout, exc, fs_log, resolution, input_dir_exists, output_dir_exists,
                   in_files, out_images, json_files, pvars, cvars>>

\* the cleanup's variables while another script runs
CleanupIdle ==
    /\ input_annotation_file = NoFile
    /\ image_dir = {}
    /\ trash_dir = {}
    /\ new_annotations = NoFile
    /\ existing_unannotated_image_files = {}

\* the partition's variables while the resolution transform runs
PartitionIdle ==
    /\ split_ratio = <<4, 5>>
    /\ src_annotation_file = NoFile
    /\ src_image_dir = {}
    /\ out_dirs_exist = FALSE
    /\ train_dir = {}
    /\ val_dir = {}
    /\ train_json = NoFile
    /\ val_json = NoFile
    /\ train_ids = {}
    /\ val_ids = {}
    /\ split = <<>>
    /\ runs = 1

InitResolutionCommon ==
    /\ pc = "main"
    /\ caller = "main"
    /\ stdout = {}
    /\ exc = "none"
    /\ fs_log = {}
    /\ resolution \in Resolutions
    /\ out_images = [f \in FileNames |-> NoRaster]
    /\ annotation_file = 0
    /\ PartitionIdle
    /\ CleanupIdle

\* datasets of every shape, all image files present and readable
InitGeometry ==
    /\ InitResolutionCommon
    /\ input_dir_exists = TRUE
    /\ output_dir_exists = FALSE
    /\ in_files = [f \in FileNames |-> "png"]
    /\ \E imgs \in InputImageLists, anns \in InputAnnotationLists :
          json_files = [p \in 0 .. MaxRuns |->
                           IF p = 0 THEN InputDataset(imgs, anns) ELSE NoFile]

NextResolution ==
    \/ Main
    \/ ResizeImages
    \/ AdjustAnnotations
    \/ DrawBoundingBoxes
    \/ CallAdjustAgain

SpecGeometry == InitGeometry /\ [][NextResolution]_vars

\* the annotation file of a run: a dataset of unique ids, one that lacks a
\* top-level key, a file that is no JSON, or no file at all
IOAnnotationFiles ==
    LET datasets == {InputDataset([i \in DOMAIN ds |-> <<i, ds[i]>>], anns) :
                        ds \in SeqsUpTo({<<400, 300>>}, MaxImages),
                        anns \in SeqsUpTo(ImageIds \X {<<10, 10, 100, 50>>}, 1)}
    IN  datasets
        \cup {Without(d, "images") : d \in datasets}
        \cup {Without(d, "annotations") : d \in datasets}
        \cup {InvalidJson, NoFile}

\* every state of the arguments' paths and of the files in the input directory
InitTransformIO ==
    /\ InitResolutionCommon
    /\ input_dir_exists \in BOOLEAN
    /\ output_dir_exists \in BOOLEAN
    /\ in_files \in [FileNames -> IF input_dir_exists THEN FileKinds ELSE {"absent"}]
    /\ \E content \in IOAnnotationFiles :
          json_files = [p \in 0 .. MaxRuns |-> IF p = 0 THEN content ELSE NoFile]

SpecTransformIO == InitTransformIO /\ [][NextResolution]_vars

\* ------------------------------------------------------ split_cvat_coco.py
MaxSplitImages == 3     \* Image records in a dataset of the partition
MaxSplitRuns == 2   \* runs of the partition on the same source paths

SplitIds == 1 .. MaxSplitImages
SplitFiles == 1 .. MaxSplitImages
Ratios == {<<1, 2>>, <<4, 5>>, <<1, 3>>}      \* split_ratio in (0,1); 0.8 is the default

SplitImage(i, id) == [id |-> id, file_name |-> i]
SplitAnnotation(k, image_id) == [id |-> k, image_id |-> image_id]

SplitInput(ids, ann_image_ids) ==
    [licenses |-> "licenses", info |-> "info", categories |-> "categories",
     images |-> [i \in DOMAIN ids |-> SplitImage(i, ids[i])],
     annotations |-> [k \in DOMAIN ann_image_ids |-> SplitAnnotation(k, ann_image_ids[k])]]

Range(seq) == {seq[j] : j \in DOMAIN seq}

\* line 171-172: list(set(...)) then random.shuffle: any order of the distinct ids
Shuffles(ids) == {f \in [1 .. Cardinality(ids) -> ids] : Range(f) = ids}

\* line 175: split_idx = int(args.split_ratio * len(image_ids)), for a ratio >= 0
SplitIdxRoundedUp(ratio, n) == (ratio[1] * n + ratio[2] - 1) \div ratio[2]

SplitIdx(ratio, n) == (ratio[1] * n) \div ratio[2]

\* line 176: set(image_ids[:split_idx]), for 0 <= split_idx
TrainIds(image_ids, split_idx) ==
    {image_ids[j] : j \in {m \in DOMAIN image_ids : m <= split_idx}}

\* line 177: set(image_ids[split_idx:]), for 0 <= split_idx
ValIds(image_ids, split_idx) ==
    {image_ids[j] : j \in {m \in DOMAIN image_ids : m > split_idx}}

\* lines 58-78 split_dataset, with val_annotations taken as "not in train_ids"
split_dataset_rest(images, annotations, train, val) ==
    [train_images |-> SelectSeq(images, LAMBDA img : img.id \in train),
     val_images |-> SelectSeq(images, LAMBDA img : img.id \in val),
     train_annotations |-> SelectSeq(annotations, LAMBDA ann : ann.image_id \in train),
     val_annotations |-> SelectSeq(annotations, LAMBDA ann : ann.image_id \notin train)]

\* lines 58-78 split_dataset
split_dataset(images, annotations, train, val) ==
    [train_images |-> SelectSeq(images, LAMBDA img : img.id \in train),
     val_images |-> SelectSeq(images, LAMBDA img : img.id \in val),
     train_annotations |-> SelectSeq(annotations, LAMBDA ann : ann.image_id \in train),
     val_annotations |-> SelectSeq(annotations, LAMBDA ann : ann.image_id \in val)]

\* shutil.copy in place of shutil.move: the file stays in the source directory
shutil_copy(file, src, dst) == [src |-> src, dst |-> dst \cup {file}]

\* line 97 shutil.move(src/file, dst directory), when it succeeds
shutil_move(file, src, dst) == [src |-> src \ {file}, dst |-> dst \cup {file}]

\* lines 96-97: the loop of moves from record i on; the first move that fails
\* raises, and the moves before it stay done
\* a move loop that passes over a file that is not in the source directory
RECURSIVE MoveImagesSkipMissing(_, _, _, _)
MoveImagesSkipMissing(image_list, i, src, dst) ==
    IF i > Len(image_list) THEN [src |-> src, dst |-> dst, exc |-> "none"]
    ELSE LET file == image_list[i].file_name
         IN  MoveImagesSkipMissing(image_list, i + 1, src \ {file},
                                   IF file \in src THEN dst \cup {file} ELSE dst)

RECURSIVE MoveImages(_, _, _, _)
MoveImages(image_list, i, src, dst) ==
    IF i > Len(image_list) THEN [src |-> src, dst |-> dst, exc |-> "none"]
    ELSE LET file == image_list[i].file_name
         IN  \* shutil.move into a directory looks for the destination name
             \* first, then renames the source
             IF file \in dst
             THEN [src |-> src, dst |-> dst, exc |-> "shutil.Error"]
             ELSE IF file \notin src
             THEN [src |-> src, dst |-> dst, exc |-> "FileNotFoundError"]
             ELSE LET moved == shutil_move(file, src, dst)
                  IN  MoveImages(image_list, i + 1, moved.src, moved.dst)

\* lines 155-180 of main: output directories, load, shuffle, split
SplitMain ==
    /\ pc = "split_main"
    /\ out_dirs_exist' = TRUE
    /\ fs_log' = IF out_dirs_exist THEN fs_log ELSE fs_log \cup {"makedirs output"}
    /\ LET data == src_annotation_file
       IN  IF ~IsJson(data) \/ ~IsDataset(data)
           THEN /\ exc' = IF data = NoFile THEN "FileNotFoundError"
                          ELSE IF data = InvalidJson THEN "JSONDecodeError"
                          ELSE "KeyError"
                /\ pc' = "crashed"
                /\ UNCHANGED <<train_ids, val_ids, split>>
           ELSE \E image_ids \in Shuffles({img.id : img \in Range(data.images)}) :
                  LET split_idx == SplitIdx(split_ratio, Len(image_ids))
                  IN  /\ train_ids' = TrainIds(image_ids, split_idx)
                      /\ val_ids' = ValIds(image_ids, split_idx)
                      /\ split' = split_dataset(data.images, data.annotations,
                                                train_ids', val_ids')
                      /\ pc' = "save_train"
                      /\ exc' = exc
    /\ UNCHANGED <<stdout, rvars, cvars, split_ratio, src_annotation_file, src_image_dir,
                   train_dir, val_dir, train_json, val_json, runs>>

\* lines 102-108: the JSON object written for a subset
SubsetJson(data, image_list, annotation_list) ==
    [licenses |-> data.licenses, info |-> data.info, categories |-> data.categories,
     images |-> image_list, annotations |-> annotation_list]

\* lines 81-108 save_files_and_move_images, as main calls it for  folder
SaveFilesAndMoveImages(folder) ==
    /\ pc = "save_" \o folder
    /\ LET data == src_annotation_file
           image_list == IF folder = "train" THEN split.train_images ELSE split.val_images
           annotation_list == IF folder = "train" THEN split.train_annotations
                              ELSE split.val_annotations
           dst == IF folder = "train" THEN train_dir ELSE val_dir
           moves == MoveImages(image_list, 1, src_image_dir, dst)
           \* open(json_path, 'w') creates the file before data['licenses'] is read
           has_keys == {"licenses", "info", "categories"} \subseteq DOMAIN data
           written == IF has_keys THEN SubsetJson(data, image_list, annotation_list)
                      ELSE InvalidJson
       IN  /\ src_image_dir' = moves.src
           /\ train_dir' = IF folder = "train" THEN moves.dst ELSE train_dir
           /\ val_dir' = IF folder = "val" THEN moves.dst ELSE val_dir
           /\ fs_log' = fs_log
                \cup (IF moves.src # src_image_dir THEN {"move " \o folder} ELSE {})
                \cup (IF moves.exc = "none" THEN {"write " \o folder \o ".json"} ELSE {})
           /\ IF moves.exc # "none"
              THEN /\ exc' = moves.exc
                   /\ pc' = "crashed"
                   /\ UNCHANGED <<train_json, val_json>>
              ELSE /\ train_json' = IF folder = "train" THEN written ELSE train_json
                   /\ val_json' = IF folder = "val" THEN written ELSE val_json
                   /\ exc' = IF has_keys THEN exc ELSE "KeyError"
                   /\ pc' = IF ~has_keys THEN "crashed"
                            ELSE IF folder = "train" THEN "save_val" ELSE "validate"
    /\ UNCHANGED <<stdout, rvars, cvars, split_ratio, src_annotation_file, out_dirs_exist,
                   train_ids, val_ids, split, runs>>

RequiredKeys == {"licenses", "info", "categories", "images", "annotations"}

\* lines 123-147: one round of validate_split's loop: what it prints, and the
\* exception that ends it
ValidateSubset(data, img_dir, data_name) ==
    IF data = NoFile THEN [out |-> {}, exc |-> "FileNotFoundError"]
    ELSE IF data = InvalidJson THEN [out |-> {}, exc |-> "JSONDecodeError"]
    ELSE
    LET missing_keys == {KeyMsg("is missing key", data_name, key) :
                            key \in RequiredKeys \ DOMAIN data}
    IN  IF ~IsDataset(data) THEN [out |-> missing_keys, exc |-> "KeyError"]
        ELSE
        LET image_ids == {image.id : image \in Range(data.images)}
            annotation_image_ids == {ann.image_id : ann \in Range(data.annotations)}
            dangling == IF annotation_image_ids \subseteq image_ids THEN {}
                        ELSE {KeyMsg("there are annotation image_ids that don't correspond to an image",
                                     data_name, "")}
            image_files == {image.file_name : image \in Range(data.images)}
        IN  IF ~out_dirs_exist
            THEN [out |-> missing_keys \cup dangling, exc |-> "FileNotFoundError"]
            ELSE [out |-> missing_keys \cup dangling
                            \cup {KeyMsg("file is missing in the image directory",
                                         data_name, file) : file \in image_files \ img_dir},
                  exc |-> "none"]

\* lines 111-149 validate_split
ValidateSplit ==
    /\ pc = "validate"
    /\ LET train == ValidateSubset(train_json, train_dir, "train")
           val == ValidateSubset(val_json, val_dir, "val")
       IN  IF train.exc # "none"
           THEN /\ stdout' = stdout \cup train.out
                /\ exc' = train.exc
                /\ pc' = "crashed"
           ELSE IF val.exc # "none"
           THEN /\ stdout' = stdout \cup train.out \cup val.out
                /\ exc' = val.exc
                /\ pc' = "crashed"
           ELSE /\ stdout' = stdout \cup train.out \cup val.out \cup
                        {Msg("Output files validation complete. Successfully split dataset.")}
                /\ exc' = exc
                /\ pc' = "done"
    /\ UNCHANGED <<fs_log, rvars, pvars, cvars>>

\* the resolution transform's variables while the partition runs
ResolutionIdle ==
    /\ caller = "main"
    /\ resolution = <<512, 512>>
    /\ input_dir_exists = FALSE
    /\ output_dir_exists = FALSE
    /\ in_files = [f \in FileNames |-> "absent"]
    /\ out_images = [f \in FileNames |-> NoRaster]
    /\ json_files = [p \in 0 .. MaxRuns |-> NoFile]
    /\ annotation_file = 0

SplitInputs ==
    {SplitInput(ids, anns) : ids \in IdLists(MaxSplitImages),
                             anns \in SeqsUpTo(1 .. (MaxSplitImages + 1), MaxAnns)}

\* a partition run: any dataset with at most one file absent from the source
\* directory, or a source annotation file that cannot be used; the output
\* directories hold no file
InitPartition ==
    /\ pc = "split_main"
    /\ stdout = {}
    /\ exc = "none"
    /\ fs_log = {}
    /\ ResolutionIdle
    /\ CleanupIdle
    /\ split_ratio \in Ratios
    /\ \/ /\ src_annotation_file \in SplitInputs
          /\ \E absent \in 0 .. MaxSplitImages : src_image_dir = SplitFiles \ {absent}
          /\ out_dirs_exist = FALSE
       \/ /\ src_annotation_file \in
                {NoFile, InvalidJson, Without(SplitInput(<<1>>, <<1>>), "licenses"),
                 Without(SplitInput(<<1>>, <<1>>), "images")}
          /\ src_image_dir = SplitFiles
          /\ out_dirs_exist \in BOOLEAN
    /\ train_dir = {}
    /\ val_dir = {}
    /\ train_json = NoFile
    /\ val_json = NoFile
    /\ train_ids = {}
    /\ val_ids = {}
    /\ split = <<>>
    /\ runs = 1

\* the script started again with the same arguments after a run that ended
\* without an exception
RunAgain ==
    /\ pc = "done"
    /\ runs < MaxSplitRuns
    /\ runs' = runs + 1
    /\ pc' = "split_main"
    /\ stdout' = {}
    /\ train_ids' = {}
    /\ val_ids' = {}
    /\ split' = <<>>
    /\ UNCHANGED <<exc, fs_log, rvars, cvars, split_ratio, src_annotation_file, src_image_dir,
                   out_dirs_exist, train_dir, val_dir, train_json, val_json>>

NextPartition ==
    \/ SplitMain
    \/ SaveFilesAndMoveImages("train")
    \/ SaveFilesAndMoveImages("val")
    \/ ValidateSplit
    \/ RunAgain

SpecPartition == InitPartition /\ [][NextPartition]_vars

\* the files validate_split can be handed: a subset file, or one that lacks a
\* required key, is no JSON, or is not there
ValidateInputs ==
    LET files == {SplitInput(ids, anns) : ids \in SeqsUpTo(SplitIds, 1),
                                          anns \in SeqsUpTo(1 .. (MaxSplitImages + 1), 1)}
    IN  files \cup {Without(d, key) : d \in files, key \in RequiredKeys}
              \cup {NoFile, InvalidJson}

\* validate_split called on files and directories in any state
InitValidate ==
    /\ pc = "validate"
    /\ stdout = {}
    /\ exc = "none"
    /\ fs_log = {}
    /\ ResolutionIdle
    /\ CleanupIdle
    /\ split_ratio = <<4, 5>>
    /\ src_annotation_file = NoFile
    /\ src_image_dir = {}
    /\ out_dirs_exist \in BOOLEAN
    /\ train_dir \in {{}, SplitFiles}
    /\ val_dir \in {{}, SplitFiles}
    /\ train_json \in ValidateInputs
    /\ val_json \in {SplitInput(<<>>, <<>>), SplitInput(<<1>>, <<2>>),
                     Without(SplitInput(<<1>>, <<1>>), "annotations"), NoFile}
    /\ train_ids = {}
    /\ val_ids = {}
    /\ split = <<>>
    /\ runs = 1

SpecValidate == InitValidate /\ [][ValidateSplit]_vars

\* --------------------------------------- remove_empty_annotation_files.py

\* a scan that takes every image id for unannotated
UnannotatedImageIdsAll(data) == {image.id : image \in Range(data.images)}

\* line 81: image_dict = {image['id']: image['file_name'] ...}; of two records
\* with one id the later one gives the file name
ImageDict(images) ==
    [id \in {image.id : image \in Range(images)} |->
        LET last == CHOOSE i \in DOMAIN images :
                        /\ images[i].id = id
                        /\ \A j \in DOMAIN images : images[j].id = id => j <= i
        IN  images[last].file_name]

\* line 84: annotated_image_ids = {ann['image_id'] for ann in annotations['annotations']}
AnnotatedImageIds(data) == {ann.image_id : ann \in Range(data.annotations)}

\* line 87: unannotated_image_ids = set(image_dict.keys()) - annotated_image_ids
UnannotatedImageIds(data) == DOMAIN ImageDict(data.images) \ AnnotatedImageIds(data)

\* lines 91-94: the files of unannotated images that are in the image directory
ExistingUnannotatedImageFiles(data, dir) ==
    {ImageDict(data.images)[id] : id \in UnannotatedImageIds(data)} \cap dir

\* lines 91-97: the ids of unannotated images whose file is not there
MissingUnannotatedImageIds(data, dir) ==
    {id \in UnannotatedImageIds(data) : ImageDict(data.images)[id] \notin dir}

\* line 97, for every such id: the Image records of the other ids
RemoveMissing(data, dir) ==
    [data EXCEPT !.images =
        SelectSeq(@, LAMBDA image : image.id \notin MissingUnannotatedImageIds(data, dir))]

\* lines 70-100 of main: load, find the unannotated images, save new_annotations.json
CleanSave ==
    /\ pc = "clean_main"
    /\ LET annotations == input_annotation_file
       IN  IF ~IsJson(annotations) \/ ~IsDataset(annotations)
           THEN /\ exc' = IF annotations = NoFile THEN "FileNotFoundError"
                          ELSE IF annotations = InvalidJson THEN "JSONDecodeError"
                          ELSE "KeyError"
                /\ pc' = "crashed"
                /\ UNCHANGED <<stdout, fs_log, new_annotations,
                               existing_unannotated_image_files>>
           ELSE /\ existing_unannotated_image_files' =
                        ExistingUnannotatedImageFiles(annotations, image_dir)
                /\ stdout' = stdout \cup
                        {FileMsg("does not exist and will be removed from annotations",
                                 ImageDict(annotations.images)[id]) :
                            id \in MissingUnannotatedImageIds(annotations, image_dir)}
                /\ new_annotations' = RemoveMissing(annotations, image_dir)
                /\ fs_log' = fs_log \cup {"write new_annotations.json"}
                /\ pc' = "clean_move"
                /\ exc' = exc
    /\ UNCHANGED <<rvars, pvars, input_annotation_file, image_dir, trash_dir>>

\* lines 102-105 of main: make _trash and move the files into it; the
\* destination is a file path, so a file of that name in _trash is replaced
CleanMove ==
    /\ pc = "clean_move"
    /\ image_dir' = image_dir \ existing_unannotated_image_files
    /\ trash_dir' = trash_dir \cup existing_unannotated_image_files
    /\ fs_log' = fs_log \cup {"makedirs _trash"}
                        \cup (IF existing_unannotated_image_files # {}
                              THEN {"move _trash"} ELSE {})
    /\ pc' = "done"
    /\ UNCHANGED <<stdout, exc, rvars, pvars, input_annotation_file, new_annotations,
                   existing_unannotated_image_files>>

\* a cleanup run: any dataset with any of its files in the image directory, or
\* an annotation file that cannot be used
InitCleanup ==
    /\ pc = "clean_main"
    /\ stdout = {}
    /\ exc = "none"
    /\ fs_log = {}
    /\ ResolutionIdle
    /\ PartitionIdle
    /\ input_annotation_file \in
            SplitInputs \cup {NoFile, InvalidJson, Without(SplitInput(<<1>>, <<1>>), "images")}
    /\ image_dir \in SUBSET SplitFiles
    /\ trash_dir = {}
    /\ new_annotations = NoFile
    /\ existing_unannotated_image_files = {}

NextCleanup ==
    \/ CleanSave
    \/ CleanMove

SpecCleanup == InitCleanup /\ [][NextCleanup]_vars


\* ------------------------------------------------ geometry of the transform

\* the Image record at position i is the only one carrying its id (Image.id is
\* a unique key of the data model)
UniqueId(images, i) == \A j \in DOMAIN images : images[j].id = images[i].id => j = i

\* r = v * a / b  for rationals r, v and integers a, b > 0
IsScaled(r, v, a, b) == r[1] * v[2] * b = v[1] * a * r[2]

\* 0 <= lo  and  lo + len <= bound  for rationals lo, len and an integer bound
Within(lo, len, bound) ==
    /\ lo[1] >= 0
    /\ lo[1] * len[2] + len[1] * lo[2] <= bound * lo[2] * len[2]

BBoxWithin(bbox, width, height) ==
    Within(bbox[1], bbox[3], width) /\ Within(bbox[2], bbox[4], height)

\* C1 (scale correctness): once adjust_annotations has written its output, every
\* Image record has width/height (W,H), and every annotation of an image with
\* original size (w0,h0) has bbox (x*W/w0, y*H/h0, w*W/w0, h*H/h0), computed
\* from the original size of its own image.
ScaleCorrectness ==
    LET in == json_files[0]
        out == json_files[1]
        W == resolution[1]
        H == resolution[2]
    IN  out # NoFile =>
        /\ Len(out.images) = Len(in.images)
        /\ Len(out.annotations) = Len(in.annotations)
        /\ \A i \in DOMAIN in.images :
            /\ out.images[i].width = W
            /\ out.images[i].height = H
            /\ UniqueId(in.images, i) =>
                \A k \in DOMAIN in.annotations :
                    in.annotations[k].image_id = in.images[i].id =>
                        LET b == in.annotations[k].bbox
                            c == out.annotations[k].bbox
                            w0 == in.images[i].width
                            h0 == in.images[i].height
                        IN  /\ IsScaled(c[1], b[1], W, w0)
                            /\ IsScaled(c[2], b[2], H, h0)
                            /\ IsScaled(c[3], b[3], W, w0)
                            /\ IsScaled(c[4], b[4], H, h0)

\* the scenario of the specification: images {1:(400,300), 2:(800,600)}, a1 on
\* image 1 with bbox (10,10,100,50), target (800,600): a1.bbox = (20,20,200,100)
ScaleCorrectnessWitness ==
    /\ resolution = <<800, 600>>
    /\ json_files[0] = InputDataset(<<<<1, <<400, 300>>>>, <<2, <<800, 600>>>>>>,
                                    <<<<1, <<10, 10, 100, 50>>>>>>)
    /\ json_files[1] # NoFile
    /\ json_files[1].annotations[1].bbox = IntBBox(<<20, 20, 200, 100>>)
    /\ json_files[1].images[1].width = 800
    /\ json_files[1].images[1].height = 600

\* C4 (bounding-box containment): an annotation whose original bbox lies within
\* [0,w0] x [0,h0] of its owning image has its rescaled bbox within [0,W] x [0,H].
BBoxContainment ==
    LET in == json_files[0]
        out == json_files[1]
    IN  out # NoFile =>
        \A i \in DOMAIN in.images : UniqueId(in.images, i) =>
            \A k \in DOMAIN in.annotations :
                (/\ in.annotations[k].image_id = in.images[i].id
                 /\ BBoxWithin(in.annotations[k].bbox, in.images[i].width, in.images[i].height))
                => BBoxWithin(out.annotations[k].bbox, resolution[1], resolution[2])

\* a bbox that touches the right and bottom edge of a 400x300 image, rescaled
\* with different factors in x and y
BBoxContainmentWitness ==
    /\ resolution = <<512, 512>>
    /\ json_files[1] # NoFile
    /\ \E k \in DOMAIN json_files[0].annotations :
        /\ json_files[0].annotations[k].bbox = IntBBox(<<0, 0, 400, 300>>)
        /\ json_files[0].annotations[k].image_id = 1
        /\ json_files[0].images = <<InputImage(1, 1, <<400, 300>>)>>
        /\ json_files[1].annotations[k].bbox = IntBBox(<<0, 0, 512, 512>>)

\* the geometry of a dataset: the stored image sizes and the bboxes
Geometry(data) ==
    <<[i \in DOMAIN data.images |-> <<data.images[i].width, data.images[i].height>>],
      [k \in DOMAIN data.annotations |-> data.annotations[k].bbox]>>

\* C5 (idempotence on geometry): adjust_annotations run with target (W,H) on the
\* output of a previous run with the same target leaves every bbox and every
\* image width/height unchanged.
AdjustIdempotent ==
    \A p \in 1 .. (MaxRuns - 1) :
        json_files[p + 1] # NoFile => Geometry(json_files[p + 1]) = Geometry(json_files[p])

\* a second run on a dataset whose first run changed an annotation of an image
AdjustIdempotentWitness ==
    /\ json_files[2] # NoFile
    /\ pc = "returned"
    /\ \E k \in DOMAIN json_files[0].annotations :
        /\ \E i \in DOMAIN json_files[0].images :
              json_files[0].images[i].id = json_files[0].annotations[k].image_id
        /\ json_files[1].annotations[k].bbox # json_files[0].annotations[k].bbox
        /\ json_files[2].annotations[k].bbox = json_files[1].annotations[k].bbox

\* ------------------------------------------- images and records after a run

\* C6 (dimension/raster consistency): after resize_images and adjust_annotations,
\* every Image record of the adjusted file has width/height equal to the raster
\* size of the file of that name in the output image directory, whatever the
\* input file was (undecodable, of another extension, or not in input_dir).
DimensionRasterConsistency ==
    json_files[1] # NoFile =>
        \A i \in DOMAIN json_files[1].images :
            LET image == json_files[1].images[i]
            IN  out_images[image.file_name] = <<image.width, image.height>>

\* ------------------------------------------------------------ the partition

\* the distinct image ids of the partition's input
InputIdSet == {img.id : img \in Range(src_annotation_file.images)}

\* main has computed train_ids and val_ids
SplitComputed == split # <<>>

\* C2 (partition disjointness and coverage): for a split ratio r and an input
\* image list with distinct-id set S, train_ids and val_ids are disjoint, their
\* union is S, and |train_ids| = floor(r * |S|).
PartitionDisjointCoverage ==
    SplitComputed =>
        /\ train_ids \cap val_ids = {}
        /\ train_ids \cup val_ids = InputIdSet
        /\ split_ratio[2] * Cardinality(train_ids) <= split_ratio[1] * Cardinality(InputIdSet)
        /\ split_ratio[1] * Cardinality(InputIdSet)
              < split_ratio[2] * (Cardinality(train_ids) + 1)

\* three distinct ids split 0.8: two train ids and one val id
PartitionDisjointCoverageWitness ==
    /\ SplitComputed
    /\ split_ratio = <<4, 5>>
    /\ Cardinality(InputIdSet) = 3
    /\ Cardinality(train_ids) = 2
    /\ Cardinality(val_ids) = 1

\* every annotation of  file  is on an image of  file
Referential(file) ==
    \A k \in DOMAIN file.annotations :
        \E i \in DOMAIN file.images : file.images[i].id = file.annotations[k].image_id

\* how many times  x  occurs in  seq
Occurrences(seq, x) == Cardinality({j \in DOMAIN seq : seq[j] = x})

\* C3 (referential preservation): every annotation written to train.json (val.json)
\* is on an image of the same file; every input annotation on an input image is
\* in exactly one of the two files, once; an annotation is in neither file only
\* if its image_id matches no input image.
ReferentialPreservation ==
    /\ IsJson(train_json) => Referential(train_json)
    /\ IsJson(val_json) => Referential(val_json)
    /\ (IsJson(train_json) /\ IsJson(val_json)) =>
        \A k \in DOMAIN src_annotation_file.annotations :
            LET ann == src_annotation_file.annotations[k]
                in_train == Occurrences(train_json.annotations, ann)
                in_val == Occurrences(val_json.annotations, ann)
            IN  IF ann.image_id \in InputIdSet
                THEN in_train + in_val = 1
                ELSE in_train + in_val = 0

\* both files written, with an annotation in each
ReferentialPreservationWitness ==
    /\ IsJson(train_json)
    /\ IsJson(val_json)
    /\ Len(train_json.annotations) = 1
    /\ Len(val_json.annotations) = 1

ConfigErrorHandled ==
    (src_annotation_file = NoFile /\ pc # "split_main") =>
        /\ exc = "none"
        /\ stdout # {}
        /\ fs_log = {}

\* C8, resolution transform entry point (under SpecTransformIO): when input_dir
\* or the annotation file does not exist, main returns with a message and nothing
\* of the file system has changed.
ConfigErrorHandledTransform ==
    (pc = "exit") => (stdout # {} /\ exc = "none" /\ fs_log = {})

\* C9 (validate_split reports, never raises): whatever JSON objects train.json
\* and val.json hold (a required key missing, dangling image_ids, files absent
\* from the image directory), validate_split runs both subsets to the end,
\* returns without an exception and changes no file.
ValidateReportsNotRaises ==
    (pc # "validate" /\ IsJson(train_json) /\ IsJson(val_json) /\ out_dirs_exist) =>
        /\ pc = "done"
        /\ exc = "none"
        /\ fs_log = {}
        /\ Msg("Output files validation complete. Successfully split dataset.") \in stdout

\* an Image record of the input whose file was never in the source directory
AbsentFiles ==
    {img.file_name : img \in Range(src_annotation_file.images)}
        \ (src_image_dir \cup train_dir \cup val_dir)

\* C10 (a missing image file is not fatal): when the file of an Image record is
\* absent from the source directory, the partition run still ends normally, has
\* written train.json and val.json and moved the other files, and the
\* validation pass has reported the missing file.
MissingFileNonFatal ==
    (/\ pc \in {"done", "crashed"}
     /\ IsJson(src_annotation_file)
     /\ RequiredKeys \subseteq DOMAIN src_annotation_file
     /\ AbsentFiles # {}) =>
        /\ pc = "done"
        /\ exc = "none"
        /\ IsJson(train_json)
        /\ IsJson(val_json)
        /\ \A img \in Range(src_annotation_file.images) :
              img.file_name \notin AbsentFiles =>
                  img.file_name \in (train_dir \cup val_dir) \ src_image_dir
        /\ \E m \in stdout : m[1] = "file is missing in the image directory"

\* resize_images has returned
Resized == pc \notin {"main", "resize", "exit"}

\* C11 (failure-tolerant batch resize): a file that fails to decode is reported
\* by name and skipped; every other .png/.jpg file of input_dir, before or after
\* it, is written to the output directory under its own name with size (W,H).
FailureTolerantResize ==
    Resized =>
        \A f \in FileNames :
            /\ in_files[f] = "png" => out_images[f] = resolution
            /\ in_files[f] = "corrupt" =>
                /\ FileMsg("error resizing image", f) \in stdout
                /\ out_images[f] = NoRaster

\* an undecodable file followed by a good one
FailureTolerantResizeWitness ==
    /\ Resized
    /\ \E f, g \in FileNames :
        /\ f < g
        /\ in_files[f] = "corrupt"
        /\ in_files[g] = "png"
        /\ out_images[g] = resolution
        /\ FileMsg("error resizing image", f) \in stdout

\* the annotation file given to main is not valid JSON or lacks a required key
MalformedInput ==
    \/ json_files[0] = InvalidJson
    \/ IsJson(json_files[0]) /\ ~IsDataset(json_files[0])

\* the first call of adjust_annotations has ended
Adjusted == pc \in {"draw", "done", "returned", "crashed"}

\* C12 (malformed annotation input is fatal): when the annotation file is not
\* valid JSON or lacks a required key, no adjusted file is written, the run
\* neither reports the adjustment as successful nor goes on to the next step,
\* and the images resized earlier stay on disk.
MalformedInputFatal ==
    (MalformedInput /\ Adjusted) =>
        /\ json_files[1] = NoFile
        /\ Msg("Annotation adjustment completed successfully") \notin stdout
        /\ pc = "crashed"
        /\ \A f \in FileNames : in_files[f] = "png" => out_images[f] = resolution

\* C13 (the input annotation file is never mutated): a call of
\* adjust_annotations, also with output_dir the directory of the input file,
\* writes to a path other than annotation_file and leaves the content of
\* annotation_file, and of every file but its output, as it was.
InputFileUntouched ==
    [][pc = "adjust" =>
          /\ OutputPath(annotation_file) # annotation_file
          /\ json_files'[annotation_file] = json_files[annotation_file]
          /\ \A p \in DOMAIN json_files :
                p # OutputPath(annotation_file) => json_files'[p] = json_files[p]]_vars

\* an adjusted file was written next to its input and differs from it
InputFileUntouchedWitness ==
    /\ pc \in {"draw", "done", "returned"}
    /\ IsJson(json_files[annotation_file])
    /\ IsJson(json_files[OutputPath(annotation_file)])
    /\ json_files[OutputPath(annotation_file)] # json_files[annotation_file]
    /\ "write adjusted" \in fs_log

\* ---------------------------------------------- what adjust_annotations keeps

\* the dataset  after  differs from  before  in bbox, width and height only
SameFrame(before, after) ==
    /\ DOMAIN after = DOMAIN before
    /\ \A key \in DOMAIN before \ {"images", "annotations"} : after[key] = before[key]
    /\ Len(after.images) = Len(before.images)
    /\ Len(after.annotations) = Len(before.annotations)
    /\ \A i \in DOMAIN before.images :
          [after.images[i] EXCEPT !.width = before.images[i].width,
                                  !.height = before.images[i].height] = before.images[i]
    /\ \A k \in DOMAIN before.annotations :
          [after.annotations[k] EXCEPT !.bbox = before.annotations[k].bbox]
              = before.annotations[k]

\* annotation k of  data  names no Image record
Orphan(data, k) ==
    \A i \in DOMAIN data.images : data.images[i].id # data.annotations[k].image_id

\* C16 (frame of adjust_annotations): the adjusted dataset has the input's
\* images and annotations in the same order and number; info, licenses,
\* categories and every field other than annotation.bbox and image.width/height
\* are the input's; an annotation whose image_id matches no Image record keeps
\* its bbox.
AdjustFrame ==
    \A p \in 0 .. (MaxRuns - 1) :
        json_files[p + 1] # NoFile =>
            /\ SameFrame(json_files[p], json_files[p + 1])
            /\ \A k \in DOMAIN json_files[p].annotations :
                  Orphan(json_files[p], k) =>
                      json_files[p + 1].annotations[k].bbox = json_files[p].annotations[k].bbox

\* a run over an image whose size changes, one annotation of it and one orphan
AdjustFrameWitness ==
    /\ json_files[1] # NoFile
    /\ Len(json_files[0].images) > 0
    /\ \E k, l \in DOMAIN json_files[0].annotations :
          /\ Orphan(json_files[0], k)
          /\ ~Orphan(json_files[0], l)
          /\ json_files[1].annotations[l].bbox # json_files[0].annotations[l].bbox
          /\ json_files[1].annotations[k].bbox = json_files[0].annotations[k].bbox

\* bbox  after  is bbox  before  multiplied once by the scale factors of  image
ScaledOnceBy(before, after, image, res) ==
    LET scale == ScaleFactors(image, res)
    IN  after = ScaleBBox(before, scale[1], scale[2])

\* C17 (a bbox is rescaled at most once per run): for any images list, also one
\* where two Image records carry the same id, each annotation's bbox after a
\* run is its input bbox, either untouched or multiplied one time by the scale
\* factors of an Image record with its image_id.
RescaledAtMostOnce ==
    json_files[1] # NoFile =>
        \A k \in DOMAIN json_files[0].annotations :
            LET before == json_files[0].annotations[k]
                after == json_files[1].annotations[k]
            IN  \/ after.bbox = before.bbox
                \/ \E i \in DOMAIN json_files[0].images :
                      /\ json_files[0].images[i].id = before.image_id
                      /\ ScaledOnceBy(before.bbox, after.bbox, json_files[0].images[i],
                                      resolution)

\* ------------------------------------------------------ the partition, again

\* the file names of the source annotation file's Image records
SourceImageFiles == {img.file_name : img \in Range(src_annotation_file.images)}

CleanOutputExcludesUnannotated ==
    new_annotations # NoFile =>
        \A i \in DOMAIN new_annotations.images :
            new_annotations.images[i].id \in AnnotatedImageIds(input_annotation_file)

\* C18 (orphan cleanup only touches unannotated images): the files the move
\* step takes to _trash were in the image directory and are each the file_name
\* of an Image record whose id no annotation references; no file of an image
\* with an annotation is moved; the annotations list of new_annotations.json is
\* the input's.
CleanMovesOnlyUnannotated ==
    [][pc = "clean_move" =>
          LET data == input_annotation_file
              moved == trash_dir' \ trash_dir
          IN  /\ moved \subseteq image_dir
              /\ image_dir' = image_dir \ moved
              /\ \A file \in moved :
                    \E i \in DOMAIN data.images :
                        /\ data.images[i].file_name = file
                        /\ data.images[i].id \notin AnnotatedImageIds(data)
              /\ \A i \in DOMAIN data.images :
                    data.images[i].id \in AnnotatedImageIds(data) =>
                        /\ data.images[i].file_name \notin moved
                        /\ data.images[i].file_name \in image_dir =>
                              data.images[i].file_name \in image_dir'
              /\ new_annotations'.annotations = data.annotations]_vars

\* a run that moved the file of an unannotated image and left the file of an
\* annotated one in place
CleanMovesOnlyUnannotatedWitness ==
    /\ pc = "done"
    /\ trash_dir # {}
    /\ new_annotations # NoFile
    /\ Len(new_annotations.annotations) > 0
    /\ \E i \in DOMAIN input_annotation_file.images :
          /\ input_annotation_file.images[i].id \in AnnotatedImageIds(input_annotation_file)
          /\ input_annotation_file.images[i].file_name \in image_dir

====
